---- MODULE Spec2Model ----
(***************************************************************************)
(* Model of the CSS selector builder of src/src/05-objects-tasks.js:       *)
(* MySelector, MyCombinedSelector and the cssSelectorBuilder facade.       *)
(*                                                                         *)
(* JavaScript objects and arrays are reference values, so the model keeps  *)
(* three heaps: `selectors` (MySelector instances), `arrays` (the array    *)
(* objects the cls / attrValue / psdCls fields point to) and `combined`    *)
(* (MyCombinedSelector instances).  A field that holds an object holds its *)
(* address in the heap.  Strings are TLA+ strings, '+' on them is \o.      *)
(***************************************************************************)
EXTENDS Integers, Sequences, FiniteSets, TLC

\* ------------------------------------------------------------------ bounds
MaxSelectors == 2   \* Spec: MySelector instances the facade creates
MaxCombined == 2    \* Spec: MyCombinedSelector instances combine creates
MaxOps == 3         \* Spec: part operations and combines that return
MaxParts == 3       \* SpecChain: part operations that return on the instance
MaxDim == 2         \* SpecRect: largest magnitude of a width or height

\* The inputs of the callers: any string, the empty one included.
Values == {"", "a", "b"}
\* The inputs of the callers in Spec, where the claims are about the nodes
\* and not about the tokens.
NodeValues == {"a"}
\* combine stores whatever token it is given: two combinators and a token
\* that is none.
Tokens == {" ", "+", ","}
\* The integers given as widths and heights.
Dims == (-MaxDim)..MaxDim
PartOps == {"element", "id", "class", "attr", "pseudoClass", "pseudoElement"}

\* ------------------------------------------------------------ references
NoRef == [kind |-> "none", ix |-> 0]
SimpleRef(i) == [kind |-> "simple", ix |-> i]
CombinedRef(j) == [kind |-> "combined", ix |-> j]

\* What a call ends with: a normal return or one of check's two throws.
None == "none"
DuplicateError == "Element, id and pseudo-element should not occur more then one time inside the selector"
OrderError == "Selector parts should be arranged in the following order: element, id, class, attribute, pseudo-class, pseudo-element"

VARIABLES
  selectors,  \* heap of MySelector instances, by address 1..Len
  arrays,     \* heap of array objects, by address 1..Len
  combined,   \* heap of MyCombinedSelector instances, by address 1..Len
  hist,       \* history: per MySelector the part operations that returned
  call,       \* the last call: operation, receiver, argument, throw, results
  rectangles, \* heap of Rectangle instances, by address 1..Len
  area        \* the last getArea() call: its receiver and the number returned

vars == <<selectors, arrays, combined, hist, call, rectangles, area>>

\* ------------------------------------------------------------- Rectangle
\* function Rectangle(width, height): the two fields, and getArea, an arrow
\* function that closes over the constructor's parameters; the closure is
\* kept as the parameter values it captured.
Rectangle(width, height) ==
  [width |-> width, height |-> height,
   getArea |-> [width |-> width, height |-> height]]

\* this.getArea(): () => width * height, on the captured parameters.
getArea(this) == this.getArea.width * this.getArea.height

\* No getArea() call yet.
NoArea == [of |-> 0, value |-> 0]

\* ------------------------------------------------------------ MySelector
MySelectorSharedArrays(arrs) ==
  [this |-> [el |-> "", idValue |-> "", cls |-> 1, attrValue |-> 2,
             psdCls |-> 3, psdEl |-> "", order |-> 0],
   arrs |-> IF arrs = <<>> THEN << <<>>, <<>>, <<>> >> ELSE arrs]

\* function MySelector(): fresh fields; the three arrays are new objects,
\* allocated at the next three addresses of the array heap.
MySelector(arrs) ==
  [this |-> [el |-> "", idValue |-> "",
             cls |-> Len(arrs) + 1, attrValue |-> Len(arrs) + 2,
             psdCls |-> Len(arrs) + 3, psdEl |-> "", order |-> 0],
   arrs |-> arrs \o << <<>>, <<>>, <<>> >>]

\* typeof this[val] === 'string': the fields that hold a string.
StringFields == {"el", "idValue", "psdEl"}

checkTiesFail(this, val, ord) ==
  IF val \in StringFields /\ Len(this[val]) > 0
    THEN [threw |-> DuplicateError, this |-> this]
    ELSE IF ord <= this.order
      THEN [threw |-> OrderError, this |-> this]
      ELSE [threw |-> None, this |-> [this EXCEPT !.order = ord]]

checkOrderFirst(this, val, ord) ==
  IF ord < this.order
    THEN [threw |-> OrderError, this |-> this]
    ELSE IF val \in StringFields /\ Len(this[val]) > 0
      THEN [threw |-> DuplicateError, this |-> this]
      ELSE [threw |-> None, this |-> [this EXCEPT !.order = ord]]

checkNoOrder(this, val, ord) ==
  IF val \in StringFields /\ Len(this[val]) > 0
    THEN [threw |-> DuplicateError, this |-> this]
    ELSE [threw |-> None, this |-> [this EXCEPT !.order = ord]]

checkNoDuplicate(this, val, ord) ==
  IF ord < this.order
    THEN [threw |-> OrderError, this |-> this]
    ELSE [threw |-> None, this |-> [this EXCEPT !.order = ord]]

checkNoRecord(this, val, ord) ==
  IF val \in StringFields /\ Len(this[val]) > 0
    THEN [threw |-> DuplicateError, this |-> this]
    ELSE IF ord < this.order
      THEN [threw |-> OrderError, this |-> this]
      ELSE [threw |-> None, this |-> this]

\* check(val, ord): throws on a non-empty string field, then on a rank below
\* this.order, else records the rank.
check(this, val, ord) ==
  IF val \in StringFields /\ Len(this[val]) > 0
    THEN [threw |-> DuplicateError, this |-> this]
    ELSE IF ord < this.order
      THEN [threw |-> OrderError, this |-> this]
      ELSE [threw |-> None, this |-> [this EXCEPT !.order = ord]]

\* The result of a part method: the throw, the receiver and the array heap
\* after the call, and the returned object (`return this`).
Threw(err, this, arrs) == [threw |-> err, this |-> this, arrs |-> arrs]
Returned(this, arrs) == [threw |-> None, this |-> this, arrs |-> arrs]

element(this, arrs, value) ==
  LET c == check(this, "el", 1) IN
  IF c.threw # None THEN Threw(c.threw, this, arrs)
  ELSE Returned([c.this EXCEPT !.el = value], arrs)

idAssignsBeforeCheck(this, arrs, value) ==
  LET assigned == [this EXCEPT !.idValue = value]
      c == check(this, "idValue", 2) IN
  IF c.threw # None THEN Threw(c.threw, assigned, arrs)
  ELSE Returned([c.this EXCEPT !.idValue = value], arrs)

id(this, arrs, value) ==
  LET c == check(this, "idValue", 2) IN
  IF c.threw # None THEN Threw(c.threw, this, arrs)
  ELSE Returned([c.this EXCEPT !.idValue = value], arrs)

classUnshift(this, arrs, value) ==
  LET c == check(this, "cls", 3) IN
  IF c.threw # None THEN Threw(c.threw, this, arrs)
  ELSE Returned(c.this, [arrs EXCEPT ![this.cls] = <<value>> \o @])

class(this, arrs, value) ==
  LET c == check(this, "cls", 3) IN
  IF c.threw # None THEN Threw(c.threw, this, arrs)
  ELSE Returned(c.this, [arrs EXCEPT ![this.cls] = Append(@, value)])

attr(this, arrs, value) ==
  LET c == check(this, "attrValue", 4) IN
  IF c.threw # None THEN Threw(c.threw, this, arrs)
  ELSE Returned(c.this, [arrs EXCEPT ![this.attrValue] = Append(@, value)])

pseudoClass(this, arrs, value) ==
  LET c == check(this, "psdCls", 5) IN
  IF c.threw # None THEN Threw(c.threw, this, arrs)
  ELSE Returned(c.this, [arrs EXCEPT ![this.psdCls] = Append(@, value)])

pseudoElement(this, arrs, value) ==
  LET c == check(this, "psdEl", 6) IN
  IF c.threw # None THEN Threw(c.threw, this, arrs)
  ELSE Returned([c.this EXCEPT !.psdEl = value], arrs)

\* Method dispatch on a MySelector receiver.
Invoke(op, this, arrs, value) ==
  CASE op = "element" -> element(this, arrs, value)
    [] op = "id" -> id(this, arrs, value)
    [] op = "class" -> class(this, arrs, value)
    [] op = "attr" -> attr(this, arrs, value)
    [] op = "pseudoClass" -> pseudoClass(this, arrs, value)
    [] op = "pseudoElement" -> pseudoElement(this, arrs, value)

\* ------------------------------------------------------------- rendering
\* A JavaScript value handed to transform: a string or an array of strings.
Str(s) == [type |-> "string", v |-> s]
Arr(a) == [type |-> "array", v |-> a]

RECURSIVE JoinWrapped(_, _, _)
\* copy.map((item) => start + item + end).join('')
JoinWrapped(items, start, end) ==
  IF items = <<>> THEN ""
  ELSE start \o Head(items) \o end \o JoinWrapped(Tail(items), start, end)

\* !value: the empty string is falsy, an array (empty or not) is truthy.
Falsy(value) == value.type = "string" /\ value.v = ""

\* transform(value, start, end)
transform(value, start, end) ==
  LET copy == IF Falsy(value) THEN Arr(<<>>) ELSE value IN
  IF copy.type = "array" THEN JoinWrapped(copy.v, start, end)
  ELSE start \o copy.v \o end

stringifyAttrBeforeClass(this, arrs) ==
  LET strEl == this.el IN
  strEl \o transform(Str(this.idValue), "#", "")
        \o transform(Arr(arrs[this.attrValue]), "[", "]")
        \o transform(Arr(arrs[this.cls]), ".", "")
        \o transform(Arr(arrs[this.psdCls]), ":", "")
        \o transform(Str(this.psdEl), "::", "")

\* MySelector.prototype.stringify
stringify(this, arrs) ==
  LET strEl == this.el IN
  strEl \o transform(Str(this.idValue), "#", "")
        \o transform(Arr(arrs[this.cls]), ".", "")
        \o transform(Arr(arrs[this.attrValue]), "[", "]")
        \o transform(Arr(arrs[this.psdCls]), ":", "")
        \o transform(Str(this.psdEl), "::", "")

MyCombinedSelectorDescendantOnly(s1, c, s2) == [s1 |-> s1, c |-> " ", s2 |-> s2]

\* function MyCombinedSelector(s1, c, s2)
MyCombinedSelector(s1, c, s2) == [s1 |-> s1, c |-> c, s2 |-> s2]

stringifyCombinedNoPadding(left, c, right) == left \o c \o right

\* MyCombinedSelector.prototype.stringify, on the children's strings:
\* `${this.s1.stringify()} ${this.c} ${this.s2.stringify()}`
stringifyCombined(left, c, right) == left \o " " \o c \o " " \o right

RECURSIVE stringifyNode(_, _, _, _)
\* stringify() on a reference: MySelector.prototype.stringify on a simple
\* node, MyCombinedSelector.prototype.stringify on a combined one.
stringifyNode(ref, sels, arrs, combs) ==
  IF ref.kind = "simple" THEN stringify(sels[ref.ix], arrs)
  ELSE LET this == combs[ref.ix] IN
       stringifyCombined(stringifyNode(this.s1, sels, arrs, combs), this.c,
                         stringifyNode(this.s2, sels, arrs, combs))

\* --------------------------------------------------------------- actions
Refs ==
  {SimpleRef(i) : i \in 1..Len(selectors)} \cup
  {CombinedRef(j) : j \in 1..Len(combined)}

Init ==
  /\ selectors = <<>>
  /\ arrays = <<>>
  /\ combined = <<>>
  /\ hist = <<>>
  /\ call = [op |-> "none", via |-> "none", self |-> NoRef, arg |-> "",
             threw |-> None, ret |-> NoRef, out |-> ""]
  /\ rectangles = <<>>
  /\ area = NoArea

\* cssSelectorBuilder.<op>(value): new MySelector().<op>(value)
Facade(op, value) ==
  LET new == MySelector(arrays)
      r == Invoke(op, new.this, new.arrs, value)
      self == SimpleRef(Len(selectors) + 1)
  IN /\ selectors' = Append(selectors, r.this)
     /\ arrays' = r.arrs
     /\ hist' = Append(hist, IF r.threw = None
                               THEN <<[op |-> op, value |-> value]>> ELSE <<>>)
     /\ call' = [op |-> op, via |-> "facade", self |-> self, arg |-> value,
                 threw |-> r.threw,
                 ret |-> IF r.threw = None THEN self ELSE NoRef, out |-> ""]
     /\ UNCHANGED <<combined, rectangles, area>>

\* <selector>.<op>(value) on an instance the caller holds
Part(i, op, value) ==
  /\ i \in 1..Len(selectors)
  /\ LET r == Invoke(op, selectors[i], arrays, value)
         self == SimpleRef(i)
     IN /\ selectors' = [selectors EXCEPT ![i] = r.this]
        /\ arrays' = r.arrs
        /\ hist' = IF r.threw = None
                     THEN [hist EXCEPT ![i] = Append(@, [op |-> op, value |-> value])]
                     ELSE hist
        /\ call' = [op |-> op, via |-> "method", self |-> self, arg |-> value,
                    threw |-> r.threw,
                    ret |-> IF r.threw = None THEN self ELSE NoRef, out |-> ""]
  /\ UNCHANGED <<combined, rectangles, area>>

CombineReusingNode(selector1, combinator, selector2) ==
  /\ selector1 \in Refs /\ selector2 \in Refs
  /\ combined' = IF combined = <<>>
                   THEN <<MyCombinedSelector(selector1, combinator, selector2)>>
                   ELSE [combined EXCEPT ![1] = MyCombinedSelector(selector1, combinator, selector2)]
  /\ call' = [op |-> "combine", via |-> "facade", self |-> NoRef, arg |-> combinator,
              threw |-> None, ret |-> CombinedRef(1), out |-> ""]
  /\ UNCHANGED <<selectors, arrays, hist, rectangles, area>>

CombineIntoLeft(selector1, combinator, selector2) ==
  /\ selector1 \in Refs /\ selector2 \in Refs
  /\ combined' = IF selector1.kind = "combined"
                   THEN [combined EXCEPT ![selector1.ix] =
                           MyCombinedSelector(selector1, combinator, selector2)]
                   ELSE Append(combined, MyCombinedSelector(selector1, combinator, selector2))
  /\ call' = [op |-> "combine", via |-> "facade", self |-> NoRef, arg |-> combinator,
              threw |-> None,
              ret |-> IF selector1.kind = "combined" THEN selector1
                      ELSE CombinedRef(Len(combined) + 1),
              out |-> ""]
  /\ UNCHANGED <<selectors, arrays, hist, rectangles, area>>

\* cssSelectorBuilder.combine(selector1, combinator, selector2)
Combine(selector1, combinator, selector2) ==
  /\ selector1 \in Refs /\ selector2 \in Refs
  /\ combined' = Append(combined, MyCombinedSelector(selector1, combinator, selector2))
  /\ call' = [op |-> "combine", via |-> "facade", self |-> NoRef, arg |-> combinator,
              threw |-> None, ret |-> CombinedRef(Len(combined) + 1), out |-> ""]
  /\ UNCHANGED <<selectors, arrays, hist, rectangles, area>>

StringifyDraining(ref) ==
  /\ ref \in Refs
  /\ call' = [op |-> "stringify", via |-> "method", self |-> ref, arg |-> "",
              threw |-> None, ret |-> NoRef,
              out |-> stringifyNode(ref, selectors, arrays, combined)]
  /\ arrays' = IF ref.kind = "simple"
                 THEN [arrays EXCEPT ![selectors[ref.ix].cls] = <<>>] ELSE arrays
  /\ UNCHANGED <<selectors, combined, hist, rectangles, area>>

\* <node>.stringify()
Stringify(ref) ==
  /\ ref \in Refs
  /\ call' = [op |-> "stringify", via |-> "method", self |-> ref, arg |-> "",
              threw |-> None, ret |-> NoRef,
              out |-> stringifyNode(ref, selectors, arrays, combined)]
  /\ UNCHANGED <<selectors, arrays, combined, hist, rectangles, area>>

RECURSIVE SumLen(_)
SumLen(s) == IF s = <<>> THEN 0 ELSE Len(Head(s)) + SumLen(Tail(s))
\* part operations and combines that returned so far
OpsDone == SumLen(hist) + Len(combined)

\* The builder as a whole: any calls on the facade and on the nodes it made.
Next ==
  \/ \E op \in PartOps, value \in NodeValues :
       Len(selectors) < MaxSelectors /\ Facade(op, value) /\ OpsDone' <= MaxOps
  \/ \E i \in 1..MaxSelectors, op \in PartOps, value \in NodeValues :
       Part(i, op, value) /\ OpsDone' <= MaxOps
  \/ \E s1 \in Refs, c \in Tokens, s2 \in Refs :
       Len(combined) < MaxCombined /\ Combine(s1, c, s2) /\ OpsDone' <= MaxOps
  \/ \E ref \in Refs : Stringify(ref)

Spec == Init /\ [][Next]_vars

\* One build chain: a facade call, then calls on the instance it returned.
NextChain ==
  \/ \E op \in PartOps, value \in Values :
       selectors = <<>> /\ Facade(op, value)
  \/ \E op \in PartOps, value \in Values :
       Part(1, op, value) /\ Len(hist'[1]) <= MaxParts
  \/ Stringify(SimpleRef(1))

SpecChain == Init /\ [][NextChain]_vars

\* new Rectangle(width, height)
NewRectangle(width, height) ==
  /\ rectangles' = Append(rectangles, Rectangle(width, height))
  /\ UNCHANGED <<selectors, arrays, combined, hist, call, area>>

\* r.width = value, by a caller holding r (the field is a plain property)
SetWidth(k, value) ==
  /\ k \in 1..Len(rectangles)
  /\ rectangles' = [rectangles EXCEPT ![k].width = value]
  /\ UNCHANGED <<selectors, arrays, combined, hist, call, area>>

\* r.height = value
SetHeight(k, value) ==
  /\ k \in 1..Len(rectangles)
  /\ rectangles' = [rectangles EXCEPT ![k].height = value]
  /\ UNCHANGED <<selectors, arrays, combined, hist, call, area>>

\* r.getArea()
GetArea(k) ==
  /\ k \in 1..Len(rectangles)
  /\ area' = [of |-> k, value |-> getArea(rectangles[k])]
  /\ UNCHANGED <<selectors, arrays, combined, hist, call, rectangles>>

\* One rectangle: its construction, then reads and writes of its members.
NextRect ==
  \/ \E w \in Dims, h \in Dims : rectangles = <<>> /\ NewRectangle(w, h)
  \/ \E v \in Dims : SetWidth(1, v)
  \/ \E v \in Dims : SetHeight(1, v)
  \/ GetArea(1)

SpecRect == Init /\ [][NextRect]_vars
\* ============================================================== claims
\* The vocabulary of the specification: the six part categories, their
\* ranks, and the ones that hold a single token.
RankOf(op) ==
  CASE op = "element" -> 1
    [] op = "id" -> 2
    [] op = "class" -> 3
    [] op = "attr" -> 4
    [] op = "pseudoClass" -> 5
    [] op = "pseudoElement" -> 6

Singular == {"element", "id", "pseudoElement"}

\* The singular token of category op on the instance s.
TokenOf(s, op) ==
  CASE op = "element" -> s.el
    [] op = "id" -> s.idValue
    [] op = "pseudoElement" -> s.psdEl

\* The singular category op already holds a non-empty token on s.
HoldsToken(s, op) == op \in Singular /\ TokenOf(s, op) # ""

\* This step is the call <selector i>.<op>(...).
PartCalled(i, op) ==
  call'.via = "method" /\ call'.self = SimpleRef(i) /\ call'.op = op

\* The last call was <selector i>.<op>(...).
LastPartCall(i, op) ==
  call.via = "method" /\ call.self = SimpleRef(i) /\ call.op = op

\* How many times op returned on an instance with history h.
Count(h, op) == Len(SelectSeq(h, LAMBDA e : e.op = op))

\* C1: a part operation whose rank is strictly below the instance's
\* lastRank fails and adds nothing; unless its category is a singular one
\* that already holds a token, the failure is the order-violation error.
C1_LowerRankRejected ==
  [][\A i \in 1..Len(selectors), op \in PartOps :
       (PartCalled(i, op) /\ RankOf(op) < selectors[i].order)
         => /\ call'.threw # None
            /\ selectors' = selectors /\ arrays' = arrays
            /\ (~HoldsToken(selectors[i], op) => call'.threw = OrderError)]_vars

\* id('a').element(...) was rejected with the order-violation error.
C1_Witness ==
  /\ Len(selectors) = 1
  /\ LastPartCall(1, "element") /\ call.threw = OrderError
  /\ hist[1] = <<[op |-> "id", value |-> "a"]>>
  /\ selectors[1].el = "" /\ selectors[1].order = 2

\* C2 as stated: whatever the values, once element, id or pseudoElement has
\* returned on an instance, another invocation of it fails with the
\* duplicate-singular-part error, so each is set at most once.
C2_SecondInvocationFails ==
  \A i \in 1..Len(selectors), op \in Singular :
    /\ Count(hist[i], op) <= 1
    /\ (LastPartCall(i, op) /\ Count(hist[i], op) = 1 /\ call.threw # None)
         => call.threw = DuplicateError

\* C2 as amended: an invocation of element, id or pseudoElement on an
\* instance whose token of that category is non-empty fails with the
\* duplicate-singular-part error, so a non-empty token never changes.
C2_NonEmptyTokenSetOnce ==
  [][\A i \in 1..Len(selectors), op \in Singular :
       HoldsToken(selectors[i], op)
         => /\ TokenOf(selectors'[i], op) = TokenOf(selectors[i], op)
            /\ PartCalled(i, op) => call'.threw = DuplicateError]_vars

\* id('a') ... id(...) was rejected with the duplicate error.
C2_Witness ==
  /\ Len(selectors) = 1
  /\ LastPartCall(1, "id") /\ call.threw = DuplicateError
  /\ Count(hist[1], "id") = 1 /\ selectors[1].idValue = "a"

\* C3: a singular part operation on an instance that already holds a
\* non-empty token of its category and whose rank is below lastRank fails
\* with the duplicate error, not the order error.
C3_DuplicateBeforeOrder ==
  [][\A i \in 1..Len(selectors), op \in Singular :
       (PartCalled(i, op) /\ HoldsToken(selectors[i], op)
          /\ RankOf(op) < selectors[i].order)
         => call'.threw = DuplicateError]_vars

\* element('a').id('b').element(...) was rejected with the duplicate error.
C3_Witness ==
  /\ Len(selectors) = 1
  /\ LastPartCall(1, "element") /\ call.threw = DuplicateError
  /\ hist[1] = <<[op |-> "element", value |-> "a"], [op |-> "id", value |-> "b"]>>
  /\ selectors[1].order = 2

\* The tokens given to the calls of category op that returned, in call order.
RECURSIVE ValuesOf(_, _)
ValuesOf(h, op) ==
  IF h = <<>> THEN <<>>
  ELSE (IF Head(h).op = op THEN <<Head(h).value>> ELSE <<>>) \o ValuesOf(Tail(h), op)

\* A singular part is present when its token is not the empty string.
PresentOf(h, op) == SelectSeq(ValuesOf(h, op), LAMBDA v : v # "")

RECURSIVE Wrapped(_, _, _)
Wrapped(vs, open, close) ==
  IF vs = <<>> THEN ""
  ELSE open \o Head(vs) \o close \o Wrapped(Tail(vs), open, close)

\* The string the specification gives for the parts of history h.
Rendered(h) ==
  Wrapped(PresentOf(h, "element"), "", "")
    \o Wrapped(PresentOf(h, "id"), "#", "")
    \o Wrapped(ValuesOf(h, "class"), ".", "")
    \o Wrapped(ValuesOf(h, "attr"), "[", "]")
    \o Wrapped(ValuesOf(h, "pseudoClass"), ":", "")
    \o Wrapped(PresentOf(h, "pseudoElement"), "::", "")

\* A valid sequence of part operations: ranks never decrease and each
\* singular category is touched at most once.
ValidSequence(h) ==
  /\ \A k \in 1..(Len(h) - 1) : RankOf(h[k].op) <= RankOf(h[k + 1].op)
  /\ \A op \in Singular : Count(h, op) <= 1

\* C4: after a valid sequence of part operations, stringify() is the
\* concatenation, in the order element, id, classes, attributes,
\* pseudo-classes, pseudo-element, of each present part in its delimiter,
\* the repeated categories in insertion order, with no separator.
C4_RenderInCategoryOrder ==
  \A i \in 1..Len(selectors) :
    ValidSequence(hist[i])
      => /\ stringify(selectors[i], arrays) = Rendered(hist[i])
         /\ (call.op = "stringify" /\ call.self = SimpleRef(i))
              => call.out = Rendered(hist[i])

\* class('a').class('b').attr('a').stringify() returned '.a.b[a]'.
C4_Witness ==
  /\ Len(selectors) = 1
  /\ hist[1] = <<[op |-> "class", value |-> "a"], [op |-> "class", value |-> "b"],
                 [op |-> "attr", value |-> "a"]>>
  /\ call.op = "stringify" /\ call.self = SimpleRef(1)
  /\ call.out = ".a.b[a]"

\* The fields of instance i, the arrays by their contents.
View(sels, arrs, i) ==
  [el |-> sels[i].el, idValue |-> sels[i].idValue, cls |-> arrs[sels[i].cls],
   attrValue |-> arrs[sels[i].attrValue], psdCls |-> arrs[sels[i].psdCls],
   psdEl |-> sels[i].psdEl, order |-> sels[i].order]

\* An instance with no part.
EmptyView ==
  [el |-> "", idValue |-> "", cls |-> <<>>, attrValue |-> <<>>, psdCls |-> <<>>,
   psdEl |-> "", order |-> 0]

\* The instance a call acts on, before the call: a facade call acts on a
\* new one.
Before(i) ==
  IF i \in 1..Len(selectors) THEN View(selectors, arrays, i) ELSE EmptyView

\* What the specification says a part operation that succeeds does.
Applied(v, op, value) ==
  CASE op = "element" -> [v EXCEPT !.el = value, !.order = RankOf(op)]
    [] op = "id" -> [v EXCEPT !.idValue = value, !.order = RankOf(op)]
    [] op = "class" -> [v EXCEPT !.cls = Append(@, value), !.order = RankOf(op)]
    [] op = "attr" -> [v EXCEPT !.attrValue = Append(@, value), !.order = RankOf(op)]
    [] op = "pseudoClass" -> [v EXCEPT !.psdCls = Append(@, value), !.order = RankOf(op)]
    [] op = "pseudoElement" -> [v EXCEPT !.psdEl = value, !.order = RankOf(op)]

\* C9: a part operation that succeeds sets (singular) or appends at the end
\* (repeatable) exactly the given value in its own category, sets lastRank
\* to the category's rank, leaves the other categories as they were and
\* returns the instance it was invoked on.
C9_SuccessSetsOwnCategory ==
  [][\A op \in PartOps :
       (call'.op = op /\ call'.threw = None)
         => LET i == call'.self.ix IN
            /\ View(selectors', arrays', i) = Applied(Before(i), op, call'.arg)
            /\ call'.ret = call'.self
            /\ call'.ret = SimpleRef(i)]_vars

\* class('a').class('b') returned the instance, its classes now a, b.
C9_Witness ==
  /\ Len(selectors) = 1
  /\ LastPartCall(1, "class") /\ call.threw = None /\ call.arg = "b"
  /\ call.ret = SimpleRef(1)
  /\ View(selectors, arrays, 1) = [EmptyView EXCEPT !.cls = <<"a", "b">>, !.order = 3]

\* C10: a part operation whose rank is at least lastRank and whose category
\* is not a singular one already holding a non-empty token succeeds; so
\* class, attr and pseudoClass can be repeated in a row.
C10_TiesAccepted ==
  [][\A i \in 1..Len(selectors), op \in PartOps :
       (PartCalled(i, op) /\ RankOf(op) >= selectors[i].order
          /\ ~HoldsToken(selectors[i], op))
         => call'.threw = None]_vars

\* class('a').class('b').class('a') was accepted and renders '.a.b.a'.
C10_Witness ==
  /\ Len(selectors) = 1
  /\ LastPartCall(1, "class") /\ call.threw = None
  /\ hist[1] = <<[op |-> "class", value |-> "a"], [op |-> "class", value |-> "b"],
                 [op |-> "class", value |-> "a"]>>
  /\ stringify(selectors[1], arrays) = ".a.b.a"

\* stringify() of a node in this state and in the next one.
Str0(ref) == stringifyNode(ref, selectors, arrays, combined)
Str1(ref) == stringifyNode(ref, selectors', arrays', combined')

\* The strings of the simple selectors under a node and the combinators
\* between them, left to right.
RECURSIVE InOrder(_)
InOrder(ref) ==
  IF ref.kind = "simple" THEN <<stringify(selectors[ref.ix], arrays)>>
  ELSE InOrder(combined[ref.ix].s1) \o <<combined[ref.ix].c>>
         \o InOrder(combined[ref.ix].s2)

RECURSIVE JoinSpaces(_)
JoinSpaces(ws) ==
  IF Len(ws) = 1 THEN Head(ws) ELSE Head(ws) \o " " \o JoinSpaces(Tail(ws))

\* C5: stringify() of a combined node is stringify(left) + ' ' + c + ' ' +
\* stringify(right) at any nesting depth: the children's strings left to
\* right, each combinator with exactly one space on each side.
C5_CombinedRender ==
  \A j \in 1..Len(combined) :
    /\ Str0(CombinedRef(j))
         = Str0(combined[j].s1) \o " " \o combined[j].c \o " " \o Str0(combined[j].s2)
    /\ Str0(CombinedRef(j)) = JoinSpaces(InOrder(CombinedRef(j)))
    /\ (call.op = "stringify" /\ call.self = CombinedRef(j))
         => call.out = JoinSpaces(InOrder(CombinedRef(j)))

\* combine(combine(a, '+', a), ' ', a).stringify() returned 'a + a   a'.
C5_Witness ==
  /\ Len(combined) = 2
  /\ combined[2] = [s1 |-> CombinedRef(1), c |-> " ", s2 |-> SimpleRef(1)]
  /\ combined[1] = [s1 |-> SimpleRef(1), c |-> "+", s2 |-> SimpleRef(1)]
  /\ call.op = "stringify" /\ call.self = CombinedRef(2)
  /\ call.out = "a + a   a"

\* C6: stringify() never fails and changes no field of any selector; called
\* twice in a row on a node it returns the same string, and every part
\* operation is accepted or rejected after it as it was before it.
C6_StringifyPure ==
  [][call'.op = "stringify"
       => /\ call'.threw = None
          /\ selectors' = selectors /\ arrays' = arrays /\ combined' = combined
          /\ (call.op = "stringify" /\ call.self = call'.self)
               => call'.out = call.out
          /\ \A i \in 1..Len(selectors), op \in PartOps, v \in NodeValues :
               Invoke(op, selectors'[i], arrays', v) = Invoke(op, selectors[i], arrays, v)]_vars

\* stringify() was called on a selector with classes and on a combined node.
C6_Witness ==
  /\ call.op = "stringify" /\ call.self = CombinedRef(1)
  /\ Len(selectors) = 1 /\ View(selectors, arrays, 1).cls = <<"a">>
  /\ call.out = Str0(CombinedRef(1))
  /\ call.out = ".a + .a"

\* The simple selectors reachable from a node.
RECURSIVE LeavesOf(_)
LeavesOf(ref) ==
  IF ref.kind = "simple" THEN {ref.ix}
  ELSE LeavesOf(combined[ref.ix].s1) \cup LeavesOf(combined[ref.ix].s2)

\* C7 as stated: once combine has returned, no operation changes the
\* children's state, so the combined node's stringify() result stays the
\* one it had at construction.
C7_ChildrenNeverChange ==
  [][\A j \in 1..Len(combined) :
       /\ \A i \in LeavesOf(CombinedRef(j)) :
            View(selectors', arrays', i) = View(selectors, arrays, i)
       /\ Str1(CombinedRef(j)) = Str0(CombinedRef(j))]_vars

\* This step is a part operation that succeeds on selector i.
PartSucceeded(i) ==
  /\ call'.op \in PartOps /\ call'.via = "method"
  /\ call'.self = SimpleRef(i) /\ call'.threw = None

\* C7 as amended: a combined node's own fields (child references and
\* combinator) never change, and only a part operation that succeeds on a
\* simple selector reachable from it changes its children's state or its
\* stringify() result.
C7_OnlyChildPartsChangeIt ==
  [][\A j \in 1..Len(combined) :
       /\ combined'[j] = combined[j]
       /\ (~ \E i \in LeavesOf(CombinedRef(j)) : PartSucceeded(i))
            => /\ \A i \in LeavesOf(CombinedRef(j)) :
                    View(selectors', arrays', i) = View(selectors, arrays, i)
               /\ Str1(CombinedRef(j)) = Str0(CombinedRef(j))]_vars

\* s = element('a'); combine(s, '+', s); then s.class('a') returned.
C7_Witness ==
  /\ Len(combined) = 1
  /\ combined[1] = [s1 |-> SimpleRef(1), c |-> "+", s2 |-> SimpleRef(1)]
  /\ LastPartCall(1, "class") /\ call.threw = None
  /\ hist[1] = <<[op |-> "element", value |-> "a"], [op |-> "class", value |-> "a"]>>
  /\ Str0(CombinedRef(1)) = "a.a + a.a"

\* The addresses of the arrays of an instance.
ArraysOf(s) == {s.cls, s.attrValue, s.psdCls}

\* C8: every facade call returns a new instance that shares no state, its
\* three sequences included, with any other; a call on one chain leaves
\* the state and the stringify() result of every other instance unchanged.
C8_ChainsIndependent ==
  [][/\ \A i \in 1..Len(selectors) :
          call'.self # SimpleRef(i)
            => /\ View(selectors', arrays', i) = View(selectors, arrays, i)
               /\ stringify(selectors'[i], arrays') = stringify(selectors[i], arrays)
     /\ (call'.via = "facade" /\ call'.op \in PartOps)
          => /\ call'.ret \notin Refs
             /\ call'.ret = SimpleRef(Len(selectors'))
             /\ Cardinality(ArraysOf(selectors'[Len(selectors')])) = 3
             /\ \A i \in 1..Len(selectors) :
                  ArraysOf(selectors'[i]) \cap ArraysOf(selectors'[Len(selectors')]) = {}]_vars

\* Two chains: class('a') on one, element('a').class('a') on the other.
C8_Witness ==
  /\ Len(selectors) = 2
  /\ hist[1] = <<[op |-> "class", value |-> "a"]>>
  /\ hist[2] = <<[op |-> "element", value |-> "a"], [op |-> "class", value |-> "a"]>>
  /\ LastPartCall(2, "class") /\ call.threw = None
  /\ stringify(selectors[1], arrays) = ".a"
  /\ stringify(selectors[2], arrays) = "a.a"

\* The four CSS combinators.
Combinators == {" ", ">", "+", "~"}

\* C11 as stated: whatever token is passed to combine, the combinator a
\* combined node holds is one of ' ', '>', '+', '~'.
C11_CombinatorIsOneOfFour ==
  \A j \in 1..Len(combined) : combined[j].c \in Combinators

\* C11 as amended: the combinator a combined node holds is the token that
\* was passed to combine, unvalidated and never changed afterwards; it is
\* one of the four combinators exactly when the caller passed one.
C11_CombinatorIsTokenPassed ==
  [][/\ \A j \in 1..Len(combined) : combined'[j].c = combined[j].c
     /\ call'.op = "combine"
          => /\ call'.threw = None
             /\ Len(combined') = Len(combined) + 1
             /\ call'.ret = CombinedRef(Len(combined'))
             /\ combined'[Len(combined')].c = call'.arg
             /\ (combined'[Len(combined')].c \in Combinators
                  <=> call'.arg \in Combinators)]_vars

\* combine(s, ',', s) returned a node that holds ','.
C11_Witness ==
  /\ call.op = "combine" /\ call.arg = "," /\ call.ret = CombinedRef(1)
  /\ Len(combined) = 1 /\ combined[1].c = ","
  /\ Str0(CombinedRef(1)) = "a , a"

\* C12: at any point after a rectangle's construction, getArea() returns
\* the product of the object's width and height fields (stated of a call
\* whose result is still what getArea() returns).
C12_AreaIsProductOfFields ==
  \A k \in 1..Len(rectangles) :
    (area.of = k /\ area.value = getArea(rectangles[k]))
      => area.value = rectangles[k].width * rectangles[k].height

\* stringify() on ref returns within `depth` nested stringify() calls.
RECURSIVE ReturnsWithin(_, _)
ReturnsWithin(ref, depth) ==
  IF depth = 0 THEN FALSE
  ELSE IF ref.kind = "simple" THEN ref.ix \in 1..Len(selectors)
  ELSE /\ ref.ix \in 1..Len(combined)
       /\ ReturnsWithin(combined[ref.ix].s1, depth - 1)
       /\ ReturnsWithin(combined[ref.ix].s2, depth - 1)

\* C13: the structure under every node is acyclic: a combined node's
\* children are nodes built before it, so stringify() terminates on every
\* node, nesting no deeper than the number of combined nodes plus one.
C13_AcyclicSoStringifyTerminates ==
  /\ \A j \in 1..Len(combined) :
       \A child \in {combined[j].s1, combined[j].s2} :
         /\ child \in Refs
         /\ child.kind = "combined" => child.ix < j
  /\ \A ref \in Refs : ReturnsWithin(ref, Len(combined) + 1)

\* n = combine(s, '+', s); combine(n, ',', n).stringify() returned.
C13_Witness ==
  /\ Len(combined) = 2
  /\ combined[1] = [s1 |-> SimpleRef(1), c |-> "+", s2 |-> SimpleRef(1)]
  /\ combined[2] = [s1 |-> CombinedRef(1), c |-> ",", s2 |-> CombinedRef(1)]
  /\ call.op = "stringify" /\ call.self = CombinedRef(2)
  /\ call.out = "a + a , a + a"

\* C14: a part operation that fails, with either error, leaves the instance
\* as it was: tokens, sequences and lastRank; so stringify() returns the
\* same string and every later operation ends as it would have without
\* the failed call.
C14_FailedCallChangesNothing ==
  [][\A i \in 1..Len(selectors), op \in PartOps :
       (PartCalled(i, op) /\ call'.threw # None)
         => /\ call'.threw \in {DuplicateError, OrderError}
            /\ call'.ret = NoRef
            /\ selectors' = selectors /\ arrays' = arrays
            /\ View(selectors', arrays', i) = View(selectors, arrays, i)
            /\ stringify(selectors'[i], arrays') = stringify(selectors[i], arrays)
            /\ \A op2 \in PartOps, v \in Values :
                 Invoke(op2, selectors'[i], arrays', v)
                   = Invoke(op2, selectors[i], arrays, v)]_vars

\* class('a').id('b') was rejected; the instance still is class('a').
C14_Witness ==
  /\ Len(selectors) = 1
  /\ LastPartCall(1, "id") /\ call.arg = "b" /\ call.threw = OrderError
  /\ hist[1] = <<[op |-> "class", value |-> "a"]>>
  /\ View(selectors, arrays, 1) = [EmptyView EXCEPT !.cls = <<"a">>, !.order = 3]
  /\ stringify(selectors[1], arrays) = ".a"

\* The highest rank among the calls of history h, 0 when there is none.
RECURSIVE MaxRank(_)
MaxRank(h) ==
  IF h = <<>> THEN 0
  ELSE LET r == RankOf(Head(h).op)
           m == MaxRank(Tail(h))
       IN IF r > m THEN r ELSE m

\* C15: lastRank never decreases and is the highest rank among the
\* categories set or appended so far: 0 on a new instance, and in 1..6 on
\* every instance a facade method returned.
C15_LastRankIsHighestRank ==
  [][/\ MySelector(arrays).this.order = 0
     /\ \A i \in 1..Len(selectors') :
          /\ selectors'[i].order = MaxRank(hist'[i])
          /\ i \in 1..Len(selectors) => selectors'[i].order >= selectors[i].order
          /\ selectors'[i].order \in 1..6]_vars

\* id('a').pseudoClass('b'), then a rejected class(...): lastRank is 5.
C15_Witness ==
  /\ Len(selectors) = 1
  /\ hist[1] = <<[op |-> "id", value |-> "a"], [op |-> "pseudoClass", value |-> "b"]>>
  /\ LastPartCall(1, "class") /\ call.threw = OrderError
  /\ selectors[1].order = 5
====
